---- MODULE Spec2Model ----
(***************************************************************************)
(* Indiana Truck Parking county dashboard (src/app.py).                    *)
(*                                                                         *)
(* The script is re-executed from top to bottom on every user interaction. *)
(* Spec models one browser session: the password gate, the map component's *)
(* retained click payload, click processing, the hourly chart and the      *)
(* Clear / Download buttons.  SpecAgg and SpecJoin check the two pure data *)
(* stages (hourly_long, join & fill) over bounded input tables.            *)
(*                                                                         *)
(* Text is modelled as a sequence of one-character strings, a float as a   *)
(* record [kind, v] with kind "num" or "nan".                              *)
(***************************************************************************)
EXTENDS Integers, Sequences, FiniteSets, TLC

VARIABLES
    APP_PASSWORD,              \* st.secrets["APP_PASSWORD"]
    keys,                      \* the keys present in st.session_state
    authed,                    \* st.session_state["authed"]
    pw_input,                  \* st.session_state["pw_input"] (the widget's value)
    selected_fips,             \* st.session_state.selected_fips
    ignore_next_click,         \* st.session_state.ignore_next_click
    last_object_clicked_popup, \* the value the map component keeps reporting
    map_metric_label,          \* the sidebar selectbox
    clear_clicked,             \* st.button("Clear selection") returns True in this run
    pc,                        \* position of the running script, "idle" between runs
    screen,                    \* what the last finished run left on the page
    daily, counties, hourly,   \* the loaded tables
    gdf_joined,                \* counties left-joined with daily, filled
    title, hourly_table,       \* results of hourly_long in this run
    download,                  \* the rendered download button
    stale,                     \* history: no map click since the last clear
    cyclesSinceClear           \* history: click-processing steps since the last clear (capped at 2)

vars == << APP_PASSWORD, keys, authed, pw_input, selected_fips, ignore_next_click,
           last_object_clicked_popup, map_metric_label, clear_clicked, pc, screen,
           daily, counties, hourly, gdf_joined, title, hourly_table, download,
           stale, cyclesSinceClear >>

sessionVars == << keys, authed, pw_input, selected_fips, ignore_next_click >>
dataVars == << daily, counties, hourly >>
histVars == << stale, cyclesSinceClear >>

-----------------------------------------------------------------------------
(* Bounds *)

MaxLen == 6          \* longest raw click payload drawn from the alphabet
MaxHourlyRows == 2   \* rows of the hourly table in SpecAgg
MaxDailyRows == 2    \* rows of the daily table in SpecAgg
MaxMetricRows == 2   \* rows of the daily table in SpecJoin

-----------------------------------------------------------------------------
(* Text helpers *)

None == << "<None>" >>

Truthy(x) == x # None /\ x # << >>

Digits == {"0", "1", "2", "3", "4", "5", "6", "7", "8", "9"}

IsDigit(c) == c \in Digits

\* mutant: the pattern r"\d" in place of r"\D"
ReSubNonDigits_Inverted(raw) == SelectSeq(raw, LAMBDA c : ~IsDigit(c))

\* re.sub(r"\D", "", raw)
ReSubNonDigits(raw) == SelectSeq(raw, IsDigit)

RECURSIVE Zeros(_)
Zeros(n) == IF n <= 0 THEN << >> ELSE << "0" >> \o Zeros(n - 1)

\* str.zfill(width): pads on the left, after a leading sign, never truncates
zfill(s, width) ==
    IF Len(s) >= width THEN s
    ELSE IF Len(s) > 0 /\ Head(s) \in {"+", "-"}
         THEN << Head(s) >> \o Zeros(width - Len(s)) \o Tail(s)
         ELSE Zeros(width - Len(s)) \o s

FipsWidth == 5

\* mutant: the zfill(5) left out
Cleaned_NoPad(raw) == ReSubNonDigits(raw)

\* cleaned = re.sub(r"\D", "", raw).zfill(5)
Cleaned(raw) == zfill(ReSubNonDigits(raw), FipsWidth)

-----------------------------------------------------------------------------
(* Table helpers (pandas) *)

Num(n) == [kind |-> "num", v |-> n]
NaN == [kind |-> "nan", v |-> 0]

\* mutant: errors="ignore", text that is no number is left as it is
to_numeric_NoCoerce(x) ==
    IF x.kind = "numstr" THEN Num(x.v) ELSE x

\* pd.to_numeric(x, errors="coerce"): numbers stay, numeric text is parsed,
\* anything else (other text, a missing value) becomes NaN
to_numeric(x) ==
    CASE x.kind = "num" -> x
      [] x.kind = "numstr" -> Num(x.v)
      [] OTHER -> NaN

fillna(x, n) == IF x.kind = "nan" THEN Num(n) ELSE x

RECURSIVE SumSeq(_)
SumSeq(s) == IF s = << >> THEN 0 ELSE Head(s) + SumSeq(Tail(s))

\* Series.max() as a float: NaN for an empty series
MaxOrNaN(s) ==
    IF s = << >> THEN NaN
    ELSE Num(CHOOSE m \in {s[i] : i \in DOMAIN s} : \A i \in DOMAIN s : s[i] <= m)

RECURSIVE SortedSeq(_)
SortedSeq(S) ==
    IF S = {} THEN << >>
    ELSE LET m == CHOOSE x \in S : \A y \in S : x <= y
         IN << m >> \o SortedSeq(S \ {m})

Column(rows, c) == [i \in DOMAIN rows |-> rows[i][c]]

\* the numeric columns of the daily table (all but county_fips and diagnosis);
\* two of the eleven metric columns are carried
num_cols == << "supply", "acc_total_deficit" >>

NaNRow == [supply |-> NaN, acc_total_deficit |-> NaN]

JoinRow(g, r) ==
    [county_fips |-> g.county_fips, county_name |-> g.county_name,
     supply |-> r.supply, acc_total_deficit |-> r.acc_total_deficit]

\* counties.merge(daily, on="county_fips", how="left")
RECURSIVE MergeLeft(_, _)
MergeLeft(c, d) ==
    IF c = << >> THEN << >>
    ELSE LET g == Head(c)
             m == SelectSeq(d, LAMBDA r : r.county_fips = g.county_fips)
         IN (IF m = << >> THEN << JoinRow(g, NaNRow) >>
             ELSE [i \in 1..Len(m) |-> JoinRow(g, m[i])])
            \o MergeLeft(Tail(c), d)

\* gdf_joined[c] = pd.to_numeric(gdf_joined[c], errors="coerce").fillna(0)
FillColumn(rows, c) ==
    [i \in DOMAIN rows |-> [rows[i] EXCEPT ![c] = fillna(to_numeric(@), 0)]]

RECURSIVE FillColumns(_, _)
FillColumns(rows, cols) ==
    IF cols = << >> THEN rows
    ELSE FillColumns(FillColumn(rows, Head(cols)), Tail(cols))

\* join & fill
JoinAndFill(c, d) == FillColumns(MergeLeft(c, d), num_cols)

\* fips_to_name.get(fips, f"County {fips}"), fips_to_name = dict(zip(...)):
\* a later row of the same county_fips overrides an earlier one
FipsToName(g, fips) ==
    LET hits == {i \in DOMAIN g : g[i].county_fips = fips}
    IN IF hits = {} THEN << "County", " " >> \o fips
       ELSE g[CHOOSE i \in hits : \A j \in hits : j <= i].county_name

\* mutant: the statewide supply taken with max() as in the county branch
SupplyConst_MaxStatewide(d, fips) ==
    LET m == IF Truthy(fips) THEN SelectSeq(d, LAMBDA r : r.county_fips = fips) ELSE d
    IN MaxOrNaN([i \in DOMAIN m |-> fillna(m[i].supply, 0).v])

\* supply_const of hourly_long
SupplyConst(d, fips) ==
    IF Truthy(fips)
    THEN LET m == SelectSeq(d, LAMBDA r : r.county_fips = fips)
         IN MaxOrNaN([i \in DOMAIN m |-> fillna(m[i].supply, 0).v])
    ELSE Num(SumSeq([i \in DOMAIN d |-> fillna(d[i].supply, 0).v]))

\* mutant: the county filter left out
Sub_NoFilter(h, fips) == h

\* sub of hourly_long
Sub(h, fips) ==
    IF Truthy(fips) THEN SelectSeq(h, LAMBDA r : r.county = fips) ELSE h

\* sub.groupby("hour", as_index=False)[["des_demand", "undes_demand"]].sum(),
\* then agg["supply"] = supply_const
Agg(sub, supply_const) ==
    LET hrs == SortedSeq({sub[i].hour : i \in DOMAIN sub})
        of(hr) == SelectSeq(sub, LAMBDA r : r.hour = hr)
    IN [k \in DOMAIN hrs |->
          [hour |-> hrs[k],
           des_demand |-> SumSeq(Column(of(hrs[k]), "des_demand")),
           undes_demand |-> SumSeq(Column(of(hrs[k]), "undes_demand")),
           supply |-> supply_const]]

StatewideTitle == << "Indiana (statewide)" >>

\* hourly_long(df_hourly, fips): the title and the wide table
hourly_long(h, d, g, fips) ==
    [title |-> IF Truthy(fips) THEN FipsToName(g, fips) ELSE StatewideTitle,
     table |-> Agg(Sub(h, fips), SupplyConst(d, fips))]

\* hourly_table.to_csv(index=False): a header line, then one line per row
to_csv(table) ==
    << << "hour", "des_demand", "undes_demand", "supply" >> >>
    \o [i \in DOMAIN table |->
          << table[i].hour, table[i].des_demand, table[i].undes_demand, table[i].supply >>]

-----------------------------------------------------------------------------
(* Inputs of the session *)

Alphabet == {"7", "-"}

Fips18097 == << "1", "8", "0", "9", "7" >>
Fips18001 == << "1", "8", "0", "0", "1" >>

\* raw popup texts a map click can report
Payloads ==
    UNION {[1..k -> Alphabet] : k \in 1..MaxLen}
    \cup { << "I", "N", "-", "1", "8", "0", "9", "7" >>, Fips18001 }

Passwords == {"", "letmein", "guess"}

MetricLabels == {"Diagnosis", "Supply (hourly fixed)"}

SampleCounties ==
    << [county_fips |-> Fips18001, county_name |-> << "Adams" >>],
       [county_fips |-> Fips18097, county_name |-> << "Marion" >>] >>

SampleDaily ==
    << [county_fips |-> Fips18001, supply |-> Num(4), acc_total_deficit |-> NaN],
       [county_fips |-> Fips18097, supply |-> Num(9), acc_total_deficit |-> Num(3)] >>

SampleHourly ==
    << [county |-> Fips18001, hour |-> 0, des_demand |-> 1, undes_demand |-> 0],
       [county |-> Fips18097, hour |-> 0, des_demand |-> 2, undes_demand |-> 3],
       [county |-> Fips18097, hour |-> 1, des_demand |-> 5, undes_demand |-> 1] >>

NoDownload == [label |-> << >>, file_name |-> "", data |-> << >>]

-----------------------------------------------------------------------------
(* The session: Init is the first run of the script in a fresh session *)

Init ==
    /\ APP_PASSWORD \in Passwords
    /\ keys = {}
    /\ authed = FALSE
    /\ pw_input = ""
    /\ selected_fips = None
    /\ ignore_next_click = FALSE
    /\ last_object_clicked_popup = None
    /\ map_metric_label = "Diagnosis"
    /\ clear_clicked = FALSE
    /\ pc = "gate"
    /\ screen = "blank"
    /\ daily = SampleDaily
    /\ counties = SampleCounties
    /\ hourly = SampleHourly
    /\ gdf_joined = << >>
    /\ title = << >>
    /\ hourly_table = << >>
    /\ download = NoDownload
    /\ stale = FALSE
    /\ cyclesSinceClear = 2

\* _check, the on_change callback of the password input; p is the value the
\* widget has just stored under "pw_input"
Check(p) ==
    IF p = APP_PASSWORD
    THEN /\ authed' = TRUE
         /\ keys' = (keys \cup {"authed"}) \ {"pw_input"}
         /\ pw_input' = ""
    ELSE /\ authed' = FALSE
         /\ keys' = keys \cup {"authed", "pw_input"}
         /\ pw_input' = p

\* the user submits a changed value in the password input; _check runs, then the script
SubmitPassword(p) ==
    /\ pc = "idle"
    /\ screen \in {"login", "login_error"}
    /\ p # (IF "pw_input" \in keys THEN pw_input ELSE "")
    /\ Check(p)
    /\ pc' = "gate"
    /\ UNCHANGED << APP_PASSWORD, selected_fips, ignore_next_click,
                    last_object_clicked_popup, map_metric_label, clear_clicked, screen,
                    gdf_joined, title, hourly_table, download >>
    /\ UNCHANGED dataVars
    /\ UNCHANGED histVars

\* mutant: st.stop() left out, the run goes on after the prompt
require_password_NoStop ==
    /\ pc = "gate"
    /\ IF "authed" \notin keys \/ ~authed
       THEN screen' = IF "authed" \in keys /\ authed = FALSE
                      THEN "login_error" ELSE "login"
       ELSE UNCHANGED screen
    /\ pc' = "data"
    /\ UNCHANGED << APP_PASSWORD, last_object_clicked_popup, map_metric_label,
                    clear_clicked, gdf_joined, title, hourly_table, download >>
    /\ UNCHANGED sessionVars
    /\ UNCHANGED dataVars
    /\ UNCHANGED histVars

\* require_password(): the gate at the top of every run
require_password ==
    /\ pc = "gate"
    /\ IF "authed" \notin keys \/ ~authed
       THEN /\ screen' = IF "authed" \in keys /\ authed = FALSE
                         THEN "login_error" ELSE "login"
            /\ pc' = "idle"
       ELSE /\ pc' = "data"
            /\ UNCHANGED screen
    /\ UNCHANGED << APP_PASSWORD, last_object_clicked_popup, map_metric_label,
                    clear_clicked, gdf_joined, title, hourly_table, download >>
    /\ UNCHANGED sessionVars
    /\ UNCHANGED dataVars
    /\ UNCHANGED histVars

\* loaders, join & fill, session-state initialisation
LoadJoinInit ==
    /\ pc = "data"
    /\ gdf_joined' = JoinAndFill(counties, daily)
    /\ keys' = keys \cup {"selected_fips", "ignore_next_click"}
    /\ selected_fips' = IF "selected_fips" \in keys THEN selected_fips ELSE None
    /\ ignore_next_click' = IF "ignore_next_click" \in keys THEN ignore_next_click ELSE FALSE
    /\ pc' = "map"
    /\ UNCHANGED << APP_PASSWORD, authed, pw_input, last_object_clicked_popup,
                    map_metric_label, clear_clicked, screen, title, hourly_table, download >>
    /\ UNCHANGED dataVars
    /\ UNCHANGED histVars
\* st_folium returns the retained popup text; sanitize popup -> fips unless the
\* guard is set; then clear the guard
ClickWrite ==
    IF Truthy(last_object_clicked_popup) /\ ~ignore_next_click
    THEN selected_fips' = Cleaned(last_object_clicked_popup)
    ELSE UNCHANGED selected_fips

\* mutant: the guard reset moved inside the click branch
GuardReset_OnlyOnClick ==
    IF ignore_next_click /\ Truthy(last_object_clicked_popup)
    THEN ignore_next_click' = FALSE
    ELSE UNCHANGED ignore_next_click

GuardReset ==
    IF ignore_next_click THEN ignore_next_click' = FALSE ELSE UNCHANGED ignore_next_click

ClickProcessing ==
    /\ pc = "map"
    /\ ClickWrite
    /\ GuardReset
    /\ cyclesSinceClear' = IF cyclesSinceClear < 2 THEN cyclesSinceClear + 1 ELSE 2
    /\ pc' = "chart"
    /\ UNCHANGED << APP_PASSWORD, keys, authed, pw_input, last_object_clicked_popup,
                    map_metric_label, clear_clicked, screen, gdf_joined, title,
                    hourly_table, download, stale >>
    /\ UNCHANGED dataVars

\* title, bars_long, hourly_table = hourly_long(hourly, st.session_state.selected_fips)
Chart ==
    /\ pc = "chart"
    /\ LET r == hourly_long(hourly, daily, gdf_joined, selected_fips)
       IN /\ title' = r.title
          /\ hourly_table' = r.table
    /\ pc' = "buttons"
    /\ UNCHANGED << APP_PASSWORD, last_object_clicked_popup, map_metric_label,
                    clear_clicked, screen, gdf_joined, download >>
    /\ UNCHANGED sessionVars
    /\ UNCHANGED dataVars
    /\ UNCHANGED histVars

\* mutant: the guard is not set on clear
ClearSelection_NoGuard ==
    /\ selected_fips' = None
    /\ UNCHANGED ignore_next_click
    /\ pc' = "gate"
    /\ UNCHANGED << screen, download >>

\* mutant: st.rerun() left out, the run goes on to render the download button
ClearSelection_NoRerun ==
    /\ selected_fips' = None
    /\ ignore_next_click' = TRUE
    /\ download' = [label |-> << "Download hourly demand (statewide)" >>,
                    file_name |-> "hourly_demand.csv",
                    data |-> to_csv(hourly_table)]
    /\ screen' = "app"
    /\ pc' = "idle"

\* the body of `if st.button("Clear selection")`: clear, set the guard, st.rerun()
ClearSelection ==
    /\ selected_fips' = None
    /\ ignore_next_click' = TRUE
    /\ pc' = "gate"
    /\ UNCHANGED << screen, download >>

DownloadLabel ==
    IF selected_fips = None
    THEN << "Download hourly demand (statewide)" >>
    ELSE << "Download hourly demand (" >> \o title \o << ")" >>

\* st.download_button(...): the last element of the run
DownloadButton ==
    /\ download' = [label |-> DownloadLabel,
                    file_name |-> "hourly_demand.csv",
                    data |-> to_csv(hourly_table)]
    /\ screen' = "app"
    /\ pc' = "idle"
    /\ UNCHANGED << selected_fips, ignore_next_click >>

\* the two button columns under the chart
Buttons ==
    /\ pc = "buttons"
    /\ IF clear_clicked
       THEN /\ ClearSelection
            /\ stale' = TRUE
            /\ cyclesSinceClear' = 0
       ELSE /\ DownloadButton
            /\ UNCHANGED histVars
    /\ clear_clicked' = FALSE
    /\ UNCHANGED << APP_PASSWORD, keys, authed, pw_input, last_object_clicked_popup,
                    map_metric_label, gdf_joined, title, hourly_table >>
    /\ UNCHANGED dataVars

\* the user clicks a county on the map: the component stores the popup text and the
\* script re-runs
MapClick(p) ==
    /\ pc = "idle"
    /\ screen = "app"
    /\ last_object_clicked_popup' = p
    /\ stale' = FALSE
    /\ pc' = "gate"
    /\ UNCHANGED << APP_PASSWORD, map_metric_label, clear_clicked, screen, gdf_joined,
                    title, hourly_table, download, cyclesSinceClear >>
    /\ UNCHANGED sessionVars
    /\ UNCHANGED dataVars

\* the user presses "Clear selection": the script re-runs with the button True
PressClear ==
    /\ pc = "idle"
    /\ screen = "app"
    /\ clear_clicked' = TRUE
    /\ pc' = "gate"
    /\ UNCHANGED << APP_PASSWORD, last_object_clicked_popup, map_metric_label, screen,
                    gdf_joined, title, hourly_table, download >>
    /\ UNCHANGED sessionVars
    /\ UNCHANGED dataVars
    /\ UNCHANGED histVars

\* the user presses the download button: the script re-runs, the map component
\* reports what it reported before
PressDownload ==
    /\ pc = "idle"
    /\ screen = "app"
    /\ pc' = "gate"
    /\ UNCHANGED << APP_PASSWORD, last_object_clicked_popup, map_metric_label,
                    clear_clicked, screen, gdf_joined, title, hourly_table, download >>
    /\ UNCHANGED sessionVars
    /\ UNCHANGED dataVars
    /\ UNCHANGED histVars

\* the user picks another metric in the sidebar: the script re-runs with a rebuilt
\* map, whose component either keeps its last click or starts without one
ChangeMetric(l) ==
    /\ pc = "idle"
    /\ screen = "app"
    /\ l # map_metric_label
    /\ map_metric_label' = l
    /\ last_object_clicked_popup' \in {last_object_clicked_popup, None}
    /\ pc' = "gate"
    /\ UNCHANGED << APP_PASSWORD, clear_clicked, screen, gdf_joined, title,
                    hourly_table, download >>
    /\ UNCHANGED sessionVars
    /\ UNCHANGED dataVars
    /\ UNCHANGED histVars

Next ==
    \/ \E p \in Passwords : SubmitPassword(p)
    \/ require_password
    \/ LoadJoinInit
    \/ ClickProcessing
    \/ Chart
    \/ Buttons
    \/ \E p \in Payloads : MapClick(p)
    \/ PressClear
    \/ PressDownload
    \/ \E l \in MetricLabels : ChangeMetric(l)

Spec == Init /\ [][Next]_vars
-----------------------------------------------------------------------------
(* hourly_long over bounded hourly and daily tables *)

SeqsUpTo(S, n) == UNION {[1..k -> S] : k \in 0..n}

FipsDomain == {Fips18001, Fips18097}

\* rows of the loaded hourly table (load_hourly has made the demands numbers)
HourlyRows ==
    {[county |-> f, hour |-> hr, des_demand |-> dm[1], undes_demand |-> dm[2]] :
        f \in FipsDomain, hr \in {0, 1}, dm \in {<< 1, 2 >>, << 3, 0 >>}}

\* rows of the daily table with a numeric or missing supply
DailyRows ==
    {[county_fips |-> f, supply |-> x, acc_total_deficit |-> NaN] :
        f \in FipsDomain, x \in {NaN, Num(2), Num(5)}}

InitAgg ==
    /\ APP_PASSWORD = "letmein"
    /\ keys = {"authed", "selected_fips", "ignore_next_click"}
    /\ authed = TRUE
    /\ pw_input = ""
    /\ selected_fips \in {None} \cup FipsDomain
    /\ ignore_next_click = FALSE
    /\ last_object_clicked_popup = selected_fips
    /\ map_metric_label = "Diagnosis"
    /\ clear_clicked = FALSE
    /\ pc = "chart"
    /\ screen = "app"
    /\ daily \in SeqsUpTo(DailyRows, MaxDailyRows)
    /\ counties = SampleCounties
    /\ hourly \in SeqsUpTo(HourlyRows, MaxHourlyRows)
    /\ gdf_joined = JoinAndFill(counties, daily)
    /\ title = << >>
    /\ hourly_table = << >>
    /\ download = NoDownload
    /\ stale = FALSE
    /\ cyclesSinceClear = 2

NextAgg ==
    \/ Chart
    \/ Buttons

SpecAgg == InitAgg /\ [][NextAgg]_vars

-----------------------------------------------------------------------------
(* join & fill over bounded county and daily tables *)

\* cells a metric column read from the CSV can hold: missing, text that is no
\* number, text that is a number, a negative and a positive number
MetricCells ==
    {NaN, [kind |-> "str", v |-> 0], [kind |-> "numstr", v |-> 7], Num(-2), Num(3)}

MetricRows ==
    {[county_fips |-> f, supply |-> x, acc_total_deficit |-> y] :
        f \in FipsDomain, x \in MetricCells, y \in {NaN, Num(1)}}

CountyTables ==
    { << SampleCounties[1] >>, << SampleCounties[2] >>, SampleCounties }

InitJoin ==
    /\ APP_PASSWORD = "letmein"
    /\ keys = {"authed"}
    /\ authed = TRUE
    /\ pw_input = ""
    /\ selected_fips = None
    /\ ignore_next_click = FALSE
    /\ last_object_clicked_popup = None
    /\ map_metric_label = "Diagnosis"
    /\ clear_clicked = FALSE
    /\ pc = "data"
    /\ screen = "login"
    /\ daily \in SeqsUpTo(MetricRows, MaxMetricRows)
    /\ counties \in CountyTables
    /\ hourly = SampleHourly
    /\ gdf_joined = << >>
    /\ title = << >>
    /\ hourly_table = << >>
    /\ download = NoDownload
    /\ stale = FALSE
    /\ cyclesSinceClear = 2

NextJoin == LoadJoinInit

SpecJoin == InitJoin /\ [][NextJoin]_vars
-----------------------------------------------------------------------------
(* Properties of the session (Spec) *)

AllDigits(s) == \A i \in DOMAIN s : s[i] \in Digits

\* s is d left-padded with "0" to at least w characters
IsZeroPadded(s, d, w) ==
    /\ Len(s) = (IF Len(d) >= w THEN Len(d) ELSE w)
    /\ \A i \in 1..(Len(s) - Len(d)) : s[i] = "0"
    /\ \A i \in 1..Len(d) : s[Len(s) - Len(d) + i] = d[i]

DigitsUpTo(raw, p) == Cardinality({q \in 1..p : raw[q] \in Digits})

\* d is raw with every non-digit character removed, order kept: its i-th
\* character is the i-th digit of raw
IsDigitsOf(d, raw) ==
    /\ Len(d) = DigitsUpTo(raw, Len(raw))
    /\ \A i \in DOMAIN d :
          \E p \in DOMAIN raw :
              raw[p] \in Digits /\ DigitsUpTo(raw, p) = i /\ d[i] = raw[p]

\* the normalized identifier of a raw payload, stated without the code's operators
IsNormalized(s, raw) ==
    LET k == DigitsUpTo(raw, Len(raw))
    IN /\ k <= Len(s)
       /\ IsDigitsOf(SubSeq(s, Len(s) - k + 1, Len(s)), raw)
       /\ IsZeroPadded(s, SubSeq(s, Len(s) - k + 1, Len(s)), 5)

\* C1: a clear empties the selection and sets the guard; the first click-processing
\* step after it leaves the selection empty whatever payload is reported; the one
\* after that sets the selection from a new non-empty payload, normalized.
C1_ClearIgnoresExactlyNextCycle ==
    [][ /\ (pc = "buttons" /\ clear_clicked)
            => (selected_fips' = None /\ ignore_next_click' = TRUE)
        /\ (pc = "map" /\ cyclesSinceClear = 0)
            => (selected_fips = None /\ selected_fips' = None)
        /\ (pc = "map" /\ cyclesSinceClear = 1 /\ ~stale
                /\ Truthy(last_object_clicked_popup))
            => IsNormalized(selected_fips', last_object_clicked_popup)
      ]_vars

\* the ignored cycle has run with a stale non-empty payload reported
C1_Witness ==
    /\ pc = "chart"
    /\ cyclesSinceClear = 1
    /\ stale
    /\ Truthy(last_object_clicked_popup)
    /\ selected_fips = None

\* C2: a click-processing step with a non-empty payload and the guard off sets the
\* selection to the payload's digits left-padded with zeros to 5 characters,
\* whatever was selected before ("IN-18097" gives "18097"); with an empty or absent
\* payload it leaves the selection as it was.
C2_ClickSetsNormalizedFips ==
    [][ /\ (pc = "map" /\ Truthy(last_object_clicked_popup) /\ ~ignore_next_click)
            => /\ IsNormalized(selected_fips', last_object_clicked_popup)
               /\ (last_object_clicked_popup = << "I", "N", "-", "1", "8", "0", "9", "7" >>
                     => selected_fips' = << "1", "8", "0", "9", "7" >>)
        /\ (pc = "map" /\ ~Truthy(last_object_clicked_popup))
            => selected_fips' = selected_fips
      ]_vars

\* the example payload has replaced another county's selection
C2_Witness ==
    /\ pc = "chart"
    /\ last_object_clicked_popup = << "I", "N", "-", "1", "8", "0", "9", "7" >>
    /\ selected_fips = << "1", "8", "0", "9", "7" >>
    /\ title = << "Adams" >>

\* C3: the guard is off after every click-processing step, payload or not, and a
\* click-processing step only ever starts with the guard on when it is the first
\* one since a clear.
C3_GuardResetsEveryCycle ==
    [][ pc = "map"
          => /\ ignore_next_click' = FALSE
             /\ (ignore_next_click => cyclesSinceClear = 0)
      ]_vars

\* a cycle that started with the guard on and no payload has reset it
C3_Witness ==
    /\ pc = "chart"
    /\ cyclesSinceClear = 1
    /\ last_object_clicked_popup = None
    /\ ~ignore_next_click

PastGate == {"data", "map", "chart", "buttons"}

IsAuthed == "authed" \in keys /\ authed

\* C4: the script is past the gate only with authed True; authed becomes True only
\* by submitting the configured secret; any other submission sets it False, and the
\* run that follows shows the error and stops.
C4_PasswordGate ==
    [][ /\ pc' \in PastGate => IsAuthed'
        /\ (~IsAuthed /\ IsAuthed') => SubmitPassword(APP_PASSWORD)
        /\ \A p \in Passwords \ {APP_PASSWORD} :
              SubmitPassword(p) => ("authed" \in keys' /\ authed' = FALSE)
        /\ (pc = "gate" /\ "authed" \in keys /\ ~authed)
              => (screen' = "login_error" /\ pc' = "idle")
      ]_vars

\* a wrong password has been submitted and the run has stopped on the error
C4_Witness ==
    /\ pc = "idle"
    /\ screen = "login_error"
    /\ "authed" \in keys
    /\ authed = FALSE
    /\ pw_input # APP_PASSWORD

Rendered == pc = "idle" /\ screen = "app"

ScopeLabel(sel, g) ==
    IF sel = None THEN << "Download hourly demand (statewide)" >>
    ELSE << "Download hourly demand (" >> \o FipsToName(g, sel) \o << ")" >>

\* C8 as amended: when the download button is rendered its label names the current
\* scope, its data is the aggregation for that scope, and its file name is
\* "hourly_demand.csv" in either scope.
C8_LabelAndDataReflectScope ==
    Rendered =>
        /\ download.label = ScopeLabel(selected_fips, gdf_joined)
        /\ (download.label = << "Download hourly demand (statewide)" >>)
              <=> (selected_fips = None)
        /\ download.data
              = to_csv(hourly_long(hourly, daily, gdf_joined, selected_fips).table)
        /\ download.file_name = "hourly_demand.csv"

\* the button is rendered for a selected county, with that county's two hours
C8_Witness ==
    /\ Rendered
    /\ selected_fips = << "1", "8", "0", "9", "7" >>
    /\ download.label = << "Download hourly demand (", "Marion", ")" >>
    /\ Len(download.data) = 3

\* C8 as claimed: label, data and also the file name follow the scope, so a render
\* in another kind of scope than the render before it changes the file name.
C8_FileNameReflectsScope ==
    [][ (pc = "buttons" /\ pc' = "idle" /\ download # NoDownload)
          => /\ download'.label = ScopeLabel(selected_fips', gdf_joined')
             /\ download'.data
                  = to_csv(hourly_long(hourly', daily', gdf_joined', selected_fips').table)
             /\ ((download.label = << "Download hourly demand (statewide)" >>)
                   # (download'.label = << "Download hourly demand (statewide)" >>))
                  => download'.file_name # download.file_name
      ]_vars

\* C9: from a clear until the next map click, every run of the script ends with
\* the selection still empty, whatever triggered the run.
C9_StalePayloadNeverReinstates ==
    (pc = "idle" /\ stale) => selected_fips = None

\* C10 as claimed: the selection is empty or exactly 5 decimal digits.
C10_SelectionIsFiveDigits ==
    selected_fips = None \/ (Len(selected_fips) = 5 /\ AllDigits(selected_fips))

\* C10 as amended: the selection is empty or a string of at least 5 decimal
\* digits, and of exactly 5 when the payload it was just made from holds at most
\* 5 digits.
C10_SelectionIsPaddedDigits ==
    /\ selected_fips = None \/ (Len(selected_fips) >= 5 /\ AllDigits(selected_fips))
    /\ (pc = "chart" /\ selected_fips # None /\ Truthy(last_object_clicked_popup)
          /\ DigitsUpTo(last_object_clicked_popup, Len(last_object_clicked_popup)) <= 5)
          => Len(selected_fips) = 5

\* a payload with fewer than 5 digits has been selected, padded
C10_Witness ==
    /\ pc = "chart"
    /\ last_object_clicked_popup = << "-", "7", "-", "7" >>
    /\ selected_fips = << "0", "0", "0", "7", "7" >>
-----------------------------------------------------------------------------
(* Properties of hourly_long (SpecAgg) *)

RECURSIVE SumAt(_, _, _)
\* the sum of column c over the rows of t at the indices I
SumAt(t, I, c) ==
    IF I = {} THEN 0
    ELSE LET i == CHOOSE j \in I : TRUE
         IN t[i][c] + SumAt(t, I \ {i}, c)

\* the rows of the hourly table in scope: a county's, or all of them
InScope(sel) == {i \in DOMAIN hourly : sel = None \/ hourly[i].county = sel}

\* hourly_table has one row per hour of the rows in scope, with the demand sums
OneRowPerHour(sel) ==
    /\ {hourly_table[k].hour : k \in DOMAIN hourly_table}
         = {hourly[i].hour : i \in InScope(sel)}
    /\ \A k, l \in DOMAIN hourly_table :
          hourly_table[k].hour = hourly_table[l].hour => k = l
    /\ \A k \in DOMAIN hourly_table :
          LET I == {i \in InScope(sel) : hourly[i].hour = hourly_table[k].hour}
          IN /\ hourly_table[k].des_demand = SumAt(hourly, I, "des_demand")
             /\ hourly_table[k].undes_demand = SumAt(hourly, I, "undes_demand")

DailyRowsOf(f) == {i \in DOMAIN daily : daily[i].county_fips = f}

\* a daily supply cell as a number, a missing one counted as zero
SupplyOrZero(i) == IF daily[i].supply.kind = "num" THEN daily[i].supply.v ELSE 0

Charted == pc = "buttons"

C6_StatewideAggregation ==
    (Charted /\ selected_fips = None) =>
        /\ OneRowPerHour(None)
        /\ title = << "Indiana (statewide)" >>
        /\ \A k \in DOMAIN hourly_table :
              /\ hourly_table[k].supply.kind = "num"
              /\ hourly_table[k].supply.v
                   = SumAt([i \in DOMAIN daily |-> [s |-> SupplyOrZero(i)]],
                           DOMAIN daily, "s")

\* two counties in one hour, two daily rows of which one has no supply
C6_Witness ==
    /\ Charted
    /\ selected_fips = None
    /\ Len(hourly) = 2
    /\ hourly[1].county # hourly[2].county
    /\ Len(hourly_table) = 1
    /\ Len(daily) = 2
    /\ \E i \in DOMAIN daily : daily[i].supply = NaN
    /\ hourly_table[1].supply = Num(5)

-----------------------------------------------------------------------------
(* Properties of join & fill (SpecJoin) *)

Joined == pc = "map"

\* what a metric cell of the daily table becomes: its number, or zero when it is
\* missing or text that is no number
FilledValue(x) == IF x.kind \in {"num", "numstr"} THEN x.v ELSE 0

\* C7 as claimed: after join & fill every metric cell of every county of the
\* geometry is a number, not missing, and >= 0.
C7_FilledMetricsNonNegative ==
    Joined =>
        /\ {gdf_joined[i].county_fips : i \in DOMAIN gdf_joined}
             = {counties[i].county_fips : i \in DOMAIN counties}
        /\ \A i \in DOMAIN gdf_joined : \A k \in DOMAIN num_cols :
              /\ gdf_joined[i][num_cols[k]].kind = "num"
              /\ gdf_joined[i][num_cols[k]].v >= 0

\* C7 as amended: after join & fill every county of the geometry has a row, and
\* every metric cell is a number, not missing: zero for a county without a daily
\* row, otherwise the daily row's number, or zero where that was missing or no
\* number (so >= 0 wherever the daily value was not a negative number).
C7_FilledMetricsAreNumbers ==
    Joined =>
        /\ {gdf_joined[i].county_fips : i \in DOMAIN gdf_joined}
             = {counties[i].county_fips : i \in DOMAIN counties}
        /\ \A i \in DOMAIN gdf_joined : \A k \in DOMAIN num_cols :
              LET c == num_cols[k]
                  x == gdf_joined[i][c]
                  D == DailyRowsOf(gdf_joined[i].county_fips)
              IN /\ x.kind = "num"
                 /\ IF D = {} THEN x.v = 0
                    ELSE \E j \in D : x.v = FilledValue(daily[j][c])
                 /\ (\A j \in D : FilledValue(daily[j][c]) >= 0)
                      => x.v >= 0
        /\ \A j \in DOMAIN daily :
              (\E i \in DOMAIN counties : counties[i].county_fips = daily[j].county_fips)
                => \E i \in DOMAIN gdf_joined :
                      /\ gdf_joined[i].county_fips = daily[j].county_fips
                      /\ \A k \in DOMAIN num_cols :
                            gdf_joined[i][num_cols[k]].v = FilledValue(daily[j][num_cols[k]])

\* a county without a daily row beside one whose supply is text and whose
\* deficit is missing
C7_Witness ==
    /\ Joined
    /\ Len(counties) = 2
    /\ Len(daily) = 1
    /\ daily[1].supply.kind = "str"
    /\ daily[1].acc_total_deficit = NaN
    /\ \A i \in DOMAIN gdf_joined : gdf_joined[i].supply = Num(0)

====
